---- MODULE Spec2Model ----
(***************************************************************************)
(* Model of DenseUAV/image.py: divide_image_into_patches.                  *)
(* One call of the function is a run of the state machine: the existence   *)
(* check, the opening of the image, the search over grid arrangements, the *)
(* choice of the layout and the emission loop that crops and saves.        *)
(***************************************************************************)
EXTENDS Integers, Sequences, FiniteSets

\* Bounds of the model.
MaxDim == 16
MaxN == 16

\* Image sizes a call can meet: every size up to MaxDim, and the sizes of
\* the documented scenarios (50x50, 1000x1000, 1200x800).
Dims == (1 .. MaxDim) \cup {50, 800, 1000, 1200}
Targets == 1 .. MaxN

VARIABLES
    pc,                \* position of the call
    image_exists,      \* os.path.exists(image_path)
    dir_exists,        \* whether output_dir exists on disk
    target_N,
    width, height,     \* img.size, read when the image is opened
    next_y,            \* next value the range(...) of the search yields
    best_arrangement,  \* None or (num_patches_y, num_patches_x, patch_size)
    best_score,
    scored,            \* arrangements the search has computed a score for
    num_patches_y, num_patches_x, patch_size,
    i, j,              \* loop variables of the emission loop
    patch_count,
    saved,             \* the patch.save calls made, in order
    result             \* value returned

vars == <<pc, image_exists, dir_exists, target_N, width, height, next_y,
          best_arrangement, best_score, scored, num_patches_y, num_patches_x,
          patch_size, i, j, patch_count, saved, result>>

None == <<>>
\* float('inf'): every score is >= 0, so -1 stands for "above every score".
Inf == -1

Abs(x) == IF x < 0 THEN -x ELSE x
Min(a, b) == IF a < b THEN a ELSE b
Max(a, b) == IF a < b THEN b ELSE a

\* int(math.sqrt(n))
IntSqrt(n) == CHOOSE k \in 0 .. n : k * k <= n /\ (k + 1) * (k + 1) > n

\* Faulty variants of the range stop: one and two short.
RangeStopShort(n) == IntSqrt(n) + 1
RangeStopNoRoot(n) == IntSqrt(n)
\* range(1, int(math.sqrt(target_N)) + 2)
RangeStop(n) == IntSqrt(n) + 2

\* Faulty variant: the divisibility test is missing.
DividesAlways(n, y) == TRUE
\* target_N % num_patches_y == 0
Divides(n, y) == n % y = 0

\* Faulty variant: the larger of the two lengths.
PatchSizeCandidateMax(patch_h, patch_w) == Max(patch_h, patch_w)
\* patch_size_candidate = min(patch_h, patch_w)
PatchSizeCandidate(patch_h, patch_w) == Min(patch_h, patch_w)

\* actual_N = (width // size) * (height // size), size > 0
ActualN(w, h, size) == (w \div size) * (h \div size)

\* The score of an arrangement with a positive patch size.
Score(w, h, n, y) ==
    LET x == n \div y
        patch_h == h \div y
        patch_w == w \div x
        size == PatchSizeCandidate(patch_h, patch_w)
        actual_N == ActualN(w, h, size)
    IN  IF actual_N = n
        THEN Abs(patch_h - patch_w)
        ELSE Abs(actual_N - n) * 1000 + Abs(patch_h - patch_w)

\* Faulty variant: a tie replaces the arrangement found earlier.
BetterOrEqual(score, best) == best = Inf \/ score <= best
\* score < best_score
Better(score, best) == best = Inf \/ score < best

Init ==
    /\ pc = "start"
    /\ image_exists \in BOOLEAN
    /\ dir_exists \in BOOLEAN
    /\ target_N \in Targets
    /\ width = 0 /\ height = 0
    /\ next_y = 1
    /\ best_arrangement = None
    /\ best_score = Inf
    /\ scored = {}
    /\ num_patches_y = 0 /\ num_patches_x = 0 /\ patch_size = 0
    /\ i = 0 /\ j = 0
    /\ patch_count = 0
    /\ saved = <<>>
    /\ result = -1

\* Faulty variant: the output directory is created before the check.
RaiseNotFoundAfterMakedirs ==
    /\ pc = "start"
    /\ ~image_exists
    /\ dir_exists' = TRUE
    /\ pc' = "FileNotFoundError"
    /\ UNCHANGED <<image_exists, target_N, width, height, next_y,
                   best_arrangement, best_score, scored, num_patches_y,
                   num_patches_x, patch_size, i, j, patch_count, saved, result>>

\* if not os.path.exists(image_path): raise FileNotFoundError
RaiseNotFound ==
    /\ pc = "start"
    /\ ~image_exists
    /\ pc' = "FileNotFoundError"
    /\ UNCHANGED <<image_exists, dir_exists, target_N, width, height, next_y,
                   best_arrangement, best_score, scored, num_patches_y,
                   num_patches_x, patch_size, i, j, patch_count, saved, result>>

\* Image.open, img.size, os.makedirs(exist_ok=True), the search's initial state
OpenImage ==
    /\ pc = "start"
    /\ image_exists
    /\ \E w \in Dims, h \in Dims : width' = w /\ height' = h
    /\ dir_exists' = TRUE
    /\ best_arrangement' = None
    /\ best_score' = Inf
    /\ next_y' = 1
    /\ pc' = "search"
    /\ UNCHANGED <<image_exists, target_N, scored, num_patches_y,
                   num_patches_x, patch_size, i, j, patch_count, saved, result>>

\* One iteration of the search whose num_patches_y does not divide target_N.
SkipNonDivisor ==
    /\ pc = "search"
    /\ next_y < RangeStop(target_N)
    /\ ~Divides(target_N, next_y)
    /\ num_patches_y' = next_y
    /\ next_y' = next_y + 1
    /\ UNCHANGED <<pc, image_exists, dir_exists, target_N, width, height,
                   best_arrangement, best_score, scored, num_patches_x,
                   patch_size, i, j, patch_count, saved, result>>

\* One iteration of the search that scores an arrangement.
ScoreCandidate ==
    /\ pc = "search"
    /\ next_y < RangeStop(target_N)
    /\ Divides(target_N, next_y)
    /\ LET y == next_y
           x == target_N \div y
           size == PatchSizeCandidate(height \div y, width \div x)
           score == Score(width, height, target_N, y)
       IN  /\ size # 0
           /\ num_patches_y' = y
           /\ num_patches_x' = x
           /\ scored' = scored \cup {<<y, x>>}
           /\ IF Better(score, best_score) /\ size > 0
              THEN /\ best_score' = score
                   /\ best_arrangement' = <<y, x, size>>
              ELSE UNCHANGED <<best_score, best_arrangement>>
    /\ next_y' = next_y + 1
    /\ UNCHANGED <<pc, image_exists, dir_exists, target_N, width, height,
                   patch_size, i, j, patch_count, saved, result>>

\* width // patch_size_candidate with patch_size_candidate = 0
RaiseZeroDivision ==
    /\ pc = "search"
    /\ next_y < RangeStop(target_N)
    /\ Divides(target_N, next_y)
    /\ LET y == next_y
           x == target_N \div y
           size == PatchSizeCandidate(height \div y, width \div x)
       IN  /\ size = 0
           /\ num_patches_y' = y
           /\ num_patches_x' = x
    /\ next_y' = next_y + 1
    /\ pc' = "ZeroDivisionError"
    /\ UNCHANGED <<image_exists, dir_exists, target_N, width, height,
                   best_arrangement, best_score, scored, patch_size, i, j,
                   patch_count, saved, result>>

\* The layout after the search: fallback or best arrangement, then the
\* override for target_N = 9.
Layout(w, h, n, best) ==
    LET chosen == IF best = None
                  THEN <<3, 3, Min(w \div 3, h \div 3)>>
                  ELSE best
    IN  IF n = 9
        THEN <<3, 3, Min(w \div 3, h \div 3)>>
        ELSE chosen

\* End of the search: the layout is fixed and the emission loop starts.
ChooseLayout ==
    /\ pc = "search"
    /\ next_y >= RangeStop(target_N)
    /\ LET l == Layout(width, height, target_N, best_arrangement)
       IN  /\ num_patches_y' = l[1]
           /\ num_patches_x' = l[2]
           /\ patch_size' = l[3]
    /\ patch_count' = 0
    /\ i' = 0 /\ j' = 0
    /\ pc' = "emit"
    /\ UNCHANGED <<image_exists, dir_exists, target_N, width, height, next_y,
                   best_arrangement, best_score, scored, saved, result>>

\* Faulty variant: the inner range runs one too far and the cap is missing.
InnerContinuesNoCap == j <= num_patches_x
\* Faulty variant: the cap stops the loop one patch early.
InnerContinuesEarlyCap == j < num_patches_x /\ patch_count < target_N - 1
\* for j in range(num_patches_x), not stopped by patch_count >= target_N
InnerContinues == j < num_patches_x /\ patch_count < target_N

\* The crop rectangle and the patch saved for cell (r, c).
Patch(r, c) ==
    LET left == c * patch_size
        top == r * patch_size
        right == Min(left + patch_size, width)
        bottom == Min(top + patch_size, height)
    IN  [row |-> r, col |-> c, left |-> left, top |-> top,
         right |-> right, bottom |-> bottom,
         resized |-> (right - left # patch_size \/ bottom - top # patch_size),
         size |-> patch_size]

\* One pass of the inner loop body: crop, resize if needed, save, count.
EmitPatch ==
    /\ pc = "emit"
    /\ i < num_patches_y
    /\ InnerContinues
    /\ saved' = Append(saved, Patch(i, j))
    /\ patch_count' = patch_count + 1
    /\ j' = j + 1
    /\ UNCHANGED <<pc, image_exists, dir_exists, target_N, width, height,
                   next_y, best_arrangement, best_score, scored,
                   num_patches_y, num_patches_x, patch_size, i, result>>

\* The inner loop ends below the cap and the outer loop takes the next row.
NextRow ==
    /\ pc = "emit"
    /\ i < num_patches_y
    /\ ~InnerContinues
    /\ patch_count < target_N
    /\ i' = i + 1
    /\ j' = 0
    /\ UNCHANGED <<pc, image_exists, dir_exists, target_N, width, height,
                   next_y, best_arrangement, best_score, scored,
                   num_patches_y, num_patches_x, patch_size, patch_count,
                   saved, result>>

\* The outer loop ends (exhausted, or patch_count >= target_N) and the
\* function returns patch_count.
Return ==
    /\ pc = "emit"
    /\ \/ i >= num_patches_y
       \/ (~InnerContinues /\ patch_count >= target_N)
    /\ result' = patch_count
    /\ pc' = "done"
    /\ UNCHANGED <<image_exists, dir_exists, target_N, width, height, next_y,
                   best_arrangement, best_score, scored, num_patches_y,
                   num_patches_x, patch_size, i, j, patch_count, saved>>

Next ==
    \/ RaiseNotFound
    \/ OpenImage
    \/ SkipNonDivisor
    \/ ScoreCandidate
    \/ RaiseZeroDivision
    \/ ChooseLayout
    \/ EmitPatch
    \/ NextRow
    \/ Return

Spec == Init /\ [][Next]_vars

TypeOK ==
    /\ pc \in {"start", "search", "emit", "done",
               "FileNotFoundError", "ZeroDivisionError"}
    /\ image_exists \in BOOLEAN
    /\ dir_exists \in BOOLEAN
    /\ target_N \in Targets
    /\ width \in Dims \cup {0}
    /\ height \in Dims \cup {0}
    /\ patch_count \in Nat

----------------------------------------------------------------------------
\* Helpers of the properties below.

Planned == pc \in {"emit", "done"}
Opened == pc \notin {"start", "FileNotFoundError"}
ChosenLayout == <<num_patches_y, num_patches_x, patch_size>>
Cell(p) == <<p.row, p.col>>

\* The rows the search enumerates, as the documentation states them.
CandidateRows(n) == {y \in 1 .. (IntSqrt(n) + 1) : n % y = 0}
CandidateEdge(w, h, n, y) == Min(h \div y, w \div (n \div y))
CandidateScore(w, h, n, y) ==
    LET e == CandidateEdge(w, h, n, y)
        achieved == (w \div e) * (h \div e)
        squareness == Abs((h \div y) - (w \div (n \div y)))
    IN  IF achieved = n
        THEN squareness
        ELSE Abs(achieved - n) * 1000 + squareness

\* C1: at every point of the emission loop and at return, the number of
\* patch files written (and the counter of them) is at most target_N.
C1_EmissionCap ==
    /\ Len(saved) <= target_N
    /\ Cardinality({Cell(saved[k]) : k \in 1 .. Len(saved)}) <= target_N
    /\ patch_count <= target_N

C1_Witness ==
    /\ pc = "done"
    /\ Len(saved) = target_N
    /\ num_patches_y > 1 /\ num_patches_x > 1

\* C2: the search over arrangements completes without raising an error for
\* every width >= 1, height >= 1 and target_N >= 1.
C2_PlannerTotal == pc # "ZeroDivisionError"

\* C3: for target_N = 9 and every image with width >= 3 and height >= 3 the
\* layout is rows = 3, columns = 3, edge = min(width // 3, height // 3).
C3_NineIsThreeByThree ==
    (Opened /\ target_N = 9 /\ width >= 3 /\ height >= 3)
        => /\ pc # "ZeroDivisionError"
           /\ Planned => ChosenLayout = <<3, 3, Min(width \div 3, height \div 3)>>

\* C4: for target_N = k*k and a square image with width = height >= target_N
\* the layout has rows = columns = k.
C4_PerfectSquare ==
    \A k \in 1 .. MaxN :
        (Opened /\ target_N = k * k /\ width = height /\ width >= target_N)
            => /\ pc # "ZeroDivisionError"
               /\ Planned => (num_patches_y = k /\ num_patches_x = k)

C4_Witness ==
    /\ Planned
    /\ target_N = 16 /\ width = 16 /\ height = 16
    /\ num_patches_y = 4 /\ num_patches_x = 4

\* C5: a call with a missing image raises FileNotFoundError and leaves the
\* filesystem as it was: no directory is created and no file is saved.
C5_NotFoundLeavesDisk ==
    [][(~image_exists) => /\ pc' = "FileNotFoundError"
                          /\ dir_exists' = dir_exists
                          /\ saved' = saved]_vars

C5_Witness ==
    /\ pc = "FileNotFoundError"
    /\ ~dir_exists
    /\ saved = <<>>

\* C6: for target_N # 9 and an image on which every enumerated candidate
\* has a positive edge, the layout is the candidate of lowest score, the
\* smallest rows among those of equal lowest score; 1200 x 800 with
\* target_N = 6 gives rows = 2, columns = 3, edge = 400.
C6_LowestScoreWins ==
    (/\ Opened
     /\ target_N # 9
     /\ \A y \in CandidateRows(target_N) :
            CandidateEdge(width, height, target_N, y) > 0)
        => /\ pc # "ZeroDivisionError"
           /\ Planned =>
                /\ \E y \in CandidateRows(target_N) :
                      /\ ChosenLayout =
                            <<y, target_N \div y,
                              CandidateEdge(width, height, target_N, y)>>
                      /\ \A q \in CandidateRows(target_N) :
                            LET sy == CandidateScore(width, height, target_N, y)
                                sq == CandidateScore(width, height, target_N, q)
                            IN  sy < sq \/ (sy = sq /\ y <= q)
                /\ (width = 1200 /\ height = 800 /\ target_N = 6)
                      => ChosenLayout = <<2, 3, 400>>

C6_Witness ==
    /\ Planned
    /\ width = 1200 /\ height = 800 /\ target_N = 6
    /\ ChosenLayout = <<2, 3, 400>>

\* C7 as stated: the scored candidates include every ordered factor pair
\* (rows, columns) of target_N.
C7_AllFactorPairs ==
    Planned => \A r \in 1 .. target_N :
                  target_N % r = 0 => <<r, target_N \div r>> \in scored

\* C7 amended: the scored candidates are the factor pairs whose rows lie in
\* 1 .. floor(sqrt(target_N)) + 1; for target_N = 6 they are (1,6), (2,3)
\* and (3,2), and (6,1) is not among them.
C7_FactorPairsUpToRoot ==
    Planned =>
        /\ scored = {<<r, target_N \div r>> : r \in CandidateRows(target_N)}
        /\ target_N = 6 => scored = {<<1, 6>>, <<2, 3>>, <<3, 2>>}

C7_Witness ==
    /\ Planned
    /\ target_N = 6
    /\ <<3, 2>> \in scored
    /\ <<6, 1>> \notin scored

\* C8: when no enumerated candidate has a positive edge the search does not
\* fail and the layout is the fallback 3 x 3 with
\* edge = min(width // 3, height // 3).
C8_FallbackLayout ==
    (/\ Opened
     /\ \A y \in CandidateRows(target_N) :
            CandidateEdge(width, height, target_N, y) = 0)
        => /\ pc # "ZeroDivisionError"
           /\ Planned => ChosenLayout = <<3, 3, Min(width \div 3, height \div 3)>>

\* C9: every saved patch was cropped from a rectangle that is edge x edge
\* with a positive edge and lies inside the image, so it was not clipped
\* and not resized, and the rectangles of distinct cells do not overlap.
C9_PatchesInsideImage ==
    \A k \in 1 .. Len(saved) :
        LET p == saved[k]
        IN  /\ p.size = patch_size /\ p.size > 0
            /\ p.left = p.col * p.size /\ p.top = p.row * p.size
            /\ p.left + p.size <= width
            /\ p.top + p.size <= height
            /\ p.right - p.left = p.size
            /\ p.bottom - p.top = p.size
            /\ ~p.resized
            /\ \A m \in 1 .. Len(saved) :
                  m # k =>
                    LET q == saved[m]
                    IN  \/ q.right <= p.left \/ p.right <= q.left
                        \/ q.bottom <= p.top \/ p.bottom <= q.top

C9_Witness ==
    /\ pc = "done"
    /\ Len(saved) >= 4
    /\ num_patches_x * patch_size < width
    /\ num_patches_y * patch_size < height

\* C10: when the call returns, rows * columns = target_N, the saved files
\* are the cells of the whole grid in row-major order, one each, and the
\* returned count is target_N.
C10_FullGridRowMajor ==
    pc = "done" =>
        /\ num_patches_y * num_patches_x = target_N
        /\ result = target_N
        /\ Len(saved) = target_N
        /\ \A k \in 1 .. Len(saved) :
              Cell(saved[k]) = <<(k - 1) \div num_patches_x,
                                 (k - 1) % num_patches_x>>

C10_Witness ==
    /\ pc = "done"
    /\ target_N = 12
    /\ num_patches_y > 1 /\ num_patches_x > 1
    /\ result = 12

====
